---- MODULE Spec2Model ----
(***************************************************************************)
(* Constraint-system model of the Merkle-path chip (chips/merkle_chip.rs), *)
(* of the circuit that drives it (circuits/merkle_circuit.rs) and of the   *)
(* plain Poseidon / Merkle-path construction of tests/utils.               *)
(*                                                                         *)
(* A synthesized circuit is a set of enabled selector rows, a set of copy  *)
(* constraints, a set of instance bindings and an assignment of the advice *)
(* cells.  Gates are evaluated over a small prime field.                   *)
(***************************************************************************)
EXTENDS Integers, Naturals, Sequences, FiniteSets, TLC

\* ------------------------------------------------------------ the field
\* F: PrimeField, reduced to the smallest prime for which x^5 is a
\* non-trivial permutation.
P == 7

F == 0 .. (P - 1)

FAdd(a, b) == (a + b) % P

FSub(a, b) == (a - b) % P

FMul(a, b) == (a * b) % P

\* ------------------------------------------------------------ shape
\* const generics of MerklePathCircuit<F, S, M, W, I>
M == 2

W == 3

I == 1

\* Spec provider (tests/utils/p128_pow5_t3.rs), round counts reduced
FullRounds == 2

PartialRounds == 1

\* capacity(): 2^65, reduced mod P
Capacity == 4

\* pad(): vec![one]
Pad == [k \in 0 .. 0 |-> 1]

Mds == [i \in 0 .. (W - 1) |-> [j \in 0 .. (W - 1) |-> IF i = j THEN 2 ELSE 1]]

Arks(r) == [i \in 0 .. (W - 1) |-> (2 * r + i + 1) % P]

Node == [0 .. (I - 1) -> F]

Length(v) == Cardinality(DOMAIN v)

\* element_size(): a chunk and the pad fill the rate slots
element_size == W - 1 - Length(Pad)

\* a vector with its elements evaluated
Vec(f) == f @@ [i \in {} |-> 0]

\* ------------------------------------------------------------ plain hash
\* x.cube() * x.square()
Pow5(x) == FMul(FMul(FMul(x, x), x), FMul(x, x))

RECURSIVE MixSum(_, _, _)
\* sum over j < k of mid[j] * mds[i][j]
MixSum(mid, i, k) ==
    IF k = 0 THEN 0
    ELSE FAdd(MixSum(mid, i, k - 1), FMul(mid[k - 1], Mds[i][k - 1]))

Mix(mid) == Vec([i \in 0 .. (W - 1) |-> MixSum(mid, i, W)])

full_round(input, round) ==
    Mix([i \in 0 .. (W - 1) |-> Pow5(FAdd(input[i], Arks(round)[i]))])

partial_round(input, round) ==
    Mix([i \in 0 .. (W - 1) |->
            IF i = 0 THEN Pow5(FAdd(input[i], Arks(round)[i]))
            ELSE FAdd(input[i], Arks(round)[i])])

\* round r of the permutation: full on [0, half) and [mid, all), else partial
Round(state, r) ==
    LET half_rounds == FullRounds \div 2
        mid == half_rounds + PartialRounds
    IN  IF r < half_rounds \/ r >= mid
        THEN full_round(state, r)
        ELSE partial_round(state, r)

States == [0 .. (W - 1) -> F]

\* the rounds, tabulated once over all states
RoundTable ==
    Vec([r \in 0 .. (FullRounds + PartialRounds - 1) |->
            Vec([s \in States |-> Round(s, r)])])

RECURSIVE PermRounds(_, _)
\* the state after rounds 0 .. r-1
PermRounds(input, r) ==
    IF r = 0 THEN input ELSE RoundTable[r - 1][PermRounds(input, r - 1)]

permutation(input) == PermRounds(input, FullRounds + PartialRounds)

PermTable == Vec([s \in States |-> permutation(s)])

\* one chunk of `size` inputs followed by the pad
Element(inputs, c) ==
    Vec([i \in 0 .. (W - 2) |->
            IF i < element_size THEN inputs[c * element_size + i]
            ELSE Pad[i - element_size]])

\* absorb: add the element to the rate slots, keep the capacity slot
Absorb(states, x) ==
    Vec([i \in 0 .. (W - 1) |-> IF i < W - 1 THEN FAdd(states[i], x[i]) ELSE states[i]])

RECURSIVE Sponge(_, _)
\* the state after absorbing and permuting chunks 0 .. c-1
Sponge(inputs, c) ==
    IF c = 0 THEN Vec([i \in 0 .. (W - 1) |-> IF i = W - 1 THEN Capacity % P ELSE 0])
    ELSE PermTable[Absorb(Sponge(inputs, c - 1), Element(inputs, c - 1))]

\* the reference hash of tests/utils: absorb every chunk, squeeze `size` elements
hash(inputs) ==
    Vec([j \in 0 .. (element_size - 1) |->
            Sponge(inputs, Length(inputs) \div element_size)[j]])

\* the hash of a level: hash(left ++ right), tabulated once over all pairs
HashTable ==
    Vec([l \in Node |-> Vec([r \in Node |->
        hash(Vec([k \in 0 .. (2 * I - 1) |-> IF k < I THEN l[k] ELSE r[k - I]]))])])

HashOf(l, r) == HashTable[l][r]

\* ------------------------------------------------------------ state
VARIABLES
    pc,           \* position of the driver
    n,            \* real path length
    left,         \* MerklePathCircuit.left  (levels 0 .. n)
    right,        \* MerklePathCircuit.right (levels 0 .. n)
    left_nodes,   \* values of the assigned cells handed to the chip as left
    right_nodes,  \* ... as right
    hash_nodes,   \* ... as hash
    copy,         \* copy-flag vector handed to load_path
    public,       \* the instance column
    advice,       \* assignment of the cells of the regions "leaves" and "path"
    s_pub,        \* rows where selector s_pub is enabled
    s_hash,       \* rows where selector s_hash is enabled
    equality,     \* copy constraints <<source cell, cell>>
    bindings,     \* instance bindings <<cell, instance row>>
    root_node,    \* cells returned by load_path
    driver,       \* who calls the chip: the circuit or a direct caller
    forged        \* inputs / cells the prover changed

\* the sponge chip (chips/poseidon_chip.rs) and its circuit
VARIABLES
    circuit_x,    \* PoseidonCircuit.x
    chunk,        \* number of chunks absorbed so far
    cur_state,    \* cells of the State the last call returned
    regions,      \* the regions assigned so far, in order: their names
    cells,        \* assignment of the advice cells <<region, column, row>>
    fixed,        \* assignment of the fixed cells <<region, column, row>>
    s_fbox,       \* <<region, row>> where selector s_fbox is enabled
    s_pbox,       \* ... s_pbox
    s_add_inputs, \* ... s_add_inputs
    call          \* the last chip call and its arguments

sponge_vars == <<circuit_x, chunk, cur_state, regions, cells, fixed,
                 s_fbox, s_pbox, s_add_inputs, call>>

\* the arithmetic chip (chips/arth_chips.rs): its selectors; its regions, cells,
\* copies and bindings are kept in the variables above
VARIABLES
    s_mul,        \* <<region, row>> where selector s_mul is enabled
    s_add,        \* ... s_add
    s_cube        \* ... s_cube

demo_vars == <<s_mul, s_add, s_cube>>

merkle_vars == <<n, left, right, left_nodes, right_nodes, hash_nodes, copy,
                 advice, s_pub, s_hash, root_node>>

vars == <<pc, n, left, right, left_nodes, right_nodes, hash_nodes, copy, public,
          advice, s_pub, s_hash, equality, bindings, root_node, driver, forged,
          sponge_vars, demo_vars>>

\* columns of MerklePathConfig: value[0 .. I-1], copy_flag, index_flag
copy_flag == I

index_flag == I + 1

RegionCells ==
    {<<"leaves", c, r>> : c \in 0 .. index_flag, r \in 0 .. 2}
        \cup {<<"path", c, r>> : c \in 0 .. index_flag, r \in 0 .. (3 * M + 2)}

\* the value a cell holds: cells of the chip's arguments live in the sponge
\* regions, the others in the regions of this chip
InstanceAt(r) == IF r \in DOMAIN public THEN public[r] ELSE 0

CellValue(adv, c) ==
    CASE c[1] = "left"  -> left_nodes[c[3]][c[2]]
      [] c[1] = "right" -> right_nodes[c[3]][c[2]]
      [] c[1] = "hash"  -> hash_nodes[c[3]][c[2]]
      [] OTHER          -> adv[c]

\* ------------------------------------------------------------ gates
\* a range check that also lets 2 through
bool_constraint_cubic(v) == FMul(FMul(v, FSub(1, v)), FSub(2, v))

bool_constraint(v) == FMul(v, FSub(1, v))

\* the monotonicity product written over the same flag twice
copy_flag_constraint_same(before, after) == FMul(before, FSub(1, before))

copy_flag_constraint(before, after) == FMul(before, FSub(1, after))

\* the hash relation selecting the side the index does not name
hash_constraint_swapped(cp, index, p_hash, left_v, right_v) ==
    FMul(FSub(1, cp),
         FSub(FSub(p_hash, FMul(index, left_v)), FMul(FSub(1, index), right_v)))

\* (1-copy)*(p_hash - (1-index)*left - index*right)
hash_constraint(cp, index, p_hash, left_v, right_v) ==
    FMul(FSub(1, cp),
         FSub(FSub(p_hash, FMul(FSub(1, index), left_v)), FMul(index, right_v)))

\* the copy relation comparing the side the index does not name
copy_constraint_swapped(cp, index, p_left, left_v, p_right, right_v) ==
    FMul(cp,
         FAdd(FMul(index, FSub(p_left, left_v)),
              FMul(FSub(1, index), FSub(p_right, right_v))))

\* copy*((1-index)*(p_left-left) + index*(p_right-right))
copy_constraint(cp, index, p_left, left_v, p_right, right_v) ==
    FMul(cp,
         FAdd(FMul(FSub(1, index), FSub(p_left, left_v)),
              FMul(index, FSub(p_right, right_v))))

\* the constraints of gate "Copy_Hash" at a row of a region
Copy_Hash(adv, reg, row) ==
    LET n_copy == adv[<<reg, copy_flag, row + 3>>]
        cp     == adv[<<reg, copy_flag, row>>]
        index  == adv[<<reg, index_flag, row>>]
    IN  {bool_constraint(n_copy), bool_constraint(cp),
         copy_flag_constraint(cp, n_copy), bool_constraint(index)}
        \cup {hash_constraint(cp, index, adv[<<reg, i, row>>],
                              adv[<<reg, i, row + 1>>], adv[<<reg, i, row + 2>>])
                : i \in 0 .. (I - 1)}
        \cup {copy_constraint(cp, index, adv[<<reg, i, row - 2>>],
                              adv[<<reg, i, row + 1>>], adv[<<reg, i, row - 1>>],
                              adv[<<reg, i, row + 2>>])
                : i \in 0 .. (I - 1)}

\* the selection relation with the two sides exchanged
select_constraint_swapped(index, left_v, right_v, hash_v) ==
    FAdd(FMul(index, FSub(left_v, hash_v)),
         FMul(FSub(1, index), FSub(right_v, hash_v)))

\* (1-index)*(left-hash) + index*(right-hash)
select_constraint(index, left_v, right_v, hash_v) ==
    FAdd(FMul(FSub(1, index), FSub(left_v, hash_v)),
         FMul(index, FSub(right_v, hash_v)))

\* the constraints of gate "PUB_SELECT" at a row of a region
PUB_SELECT(adv, reg, row) ==
    LET index == adv[<<reg, index_flag, row>>]
        cp    == adv[<<reg, copy_flag, row>>]
    IN  {bool_constraint(index), cp}
        \cup {select_constraint(index, adv[<<reg, i, row - 2>>],
                                adv[<<reg, i, row - 1>>], adv[<<reg, i, row>>])
                : i \in 0 .. (I - 1)}

\* what the proof system verifies: every enabled gate, every copy constraint
\* and every instance binding
GatesHold(adv) ==
    /\ \A g \in s_hash : Copy_Hash(adv, g[1], g[2]) \subseteq {0}
    /\ \A g \in s_pub : PUB_SELECT(adv, g[1], g[2]) \subseteq {0}

CopiesHold(adv) == \A e \in equality : CellValue(adv, e[1]) = CellValue(adv, e[2])

BindingsHold(adv) == \A b \in bindings : CellValue(adv, b[1]) = InstanceAt(b[2])

Satisfied == GatesHold(advice) /\ CopiesHold(advice) /\ BindingsHold(advice)


\* ------------------------------------------------------------ layout
\* the rows of the path region: level i holds left, right and hash in rows
\* 3i, 3i+1, 3i+2, and its flags in the hash row
LeftRow(i) == Vec([j \in 0 .. (I - 1) |-> advice[<<"path", j, 3 * i>>]])

RightRow(i) == Vec([j \in 0 .. (I - 1) |-> advice[<<"path", j, 3 * i + 1>>]])

HashRow(i) == Vec([j \in 0 .. (I - 1) |-> advice[<<"path", j, 3 * i + 2>>]])

CopyFlag(i) == advice[<<"path", copy_flag, 3 * i + 2>>]

IndexFlag(i) == advice[<<"path", index_flag, 3 * i + 2>>]

\* the public input: leaf, index flags, root
PublicLeaf == Vec([j \in 0 .. (I - 1) |-> InstanceAt(j)])

PublicIndex(i) == InstanceAt(I + i)

PublicRoot == Vec([j \in 0 .. (I - 1) |-> InstanceAt(M + I + j)])

\* ------------------------------------------------------------ assignment
\* The region after a handler ran: copy_advice takes the source's value,
\* assign_advice_from_instance the instance row's, assign_advice the witness.
Assign(adv, copies, binds, assigned) ==
    [c \in RegionCells |->
        IF \E k \in assigned : k[1] = c
        THEN (CHOOSE k \in assigned : k[1] = c)[2]
        ELSE IF \E b \in binds : b[1] = c
        THEN InstanceAt((CHOOSE b \in binds : b[1] = c)[2])
        ELSE IF \E e \in copies : e[2] = c
        THEN CellValue(adv, (CHOOSE e \in copies : e[2] = c)[1])
        ELSE adv[c]]

\* ------------------------------------------------------------ load_leaves
leaves_copies ==
    {<<<<"left", j, 0>>, <<"leaves", j, 0>>>> : j \in 0 .. (I - 1)}
        \cup {<<<<"right", j, 0>>, <<"leaves", j, 1>>>> : j \in 0 .. (I - 1)}

leaves_bindings ==
    {<<<<"leaves", j, 2>>, j>> : j \in 0 .. (I - 1)}
        \cup {<<<<"leaves", index_flag, 2>>, I>>}

leaves_assigned == {<<<<"leaves", copy_flag, 2>>, 0>>}

LoadLeaves ==
    /\ pc = "start"
    /\ pc' = "leaves"
    /\ s_pub' = s_pub \cup {<<"leaves", 2>>}
    /\ advice' = Assign(advice, leaves_copies, leaves_bindings, leaves_assigned)
    /\ equality' = equality \cup leaves_copies
    /\ bindings' = bindings \cup leaves_bindings
    /\ UNCHANGED <<n, left, right, left_nodes, right_nodes, hash_nodes, copy, public,
                   s_hash, root_node, driver, forged>>
    /\ UNCHANGED sponge_vars
    /\ UNCHANGED demo_vars

\* ------------------------------------------------------------ load_path
load_path_asserts_any_hash(m, nn) ==
    /\ m + 1 = Length(right_nodes)
    /\ m + 1 = Length(left_nodes)
    /\ m + 1 = Length(copy)
    /\ nn <= m

load_path_asserts(m, nn) ==
    /\ m + 1 = Length(right_nodes)
    /\ m + 1 = Length(left_nodes)
    /\ m + 1 = Length(copy)
    /\ m = Length(hash_nodes)
    /\ nn <= m

\* load_path placing right[m] in the second root row
path_copies_right_root(m, nn) ==
    {<<<<"left", j, i>>, <<"path", j, i * 3>>>> :
        j \in 0 .. (I - 1), i \in (0 .. (nn - 1)) \cup (nn .. (m - 1))}
      \cup {<<<<"right", j, i>>, <<"path", j, i * 3 + 1>>>> :
        j \in 0 .. (I - 1), i \in (0 .. (nn - 1)) \cup (nn .. (m - 1))}
      \cup {<<<<"hash", j, i>>, <<"path", j, i * 3 + 2>>>> :
        j \in 0 .. (I - 1), i \in (0 .. (nn - 1)) \cup (nn .. (m - 1))}
      \cup {<<<<"left", j, m>>, <<"path", j, m * 3>>>> : j \in 0 .. (I - 1)}
      \cup {<<<<"right", j, m>>, <<"path", j, m * 3 + 1>>>> : j \in 0 .. (I - 1)}

\* rows of the levels 0 .. n-1 and n .. m-1, and the two root rows
path_copies(m, nn) ==
    {<<<<"left", j, i>>, <<"path", j, i * 3>>>> :
        j \in 0 .. (I - 1), i \in (0 .. (nn - 1)) \cup (nn .. (m - 1))}
      \cup {<<<<"right", j, i>>, <<"path", j, i * 3 + 1>>>> :
        j \in 0 .. (I - 1), i \in (0 .. (nn - 1)) \cup (nn .. (m - 1))}
      \cup {<<<<"hash", j, i>>, <<"path", j, i * 3 + 2>>>> :
        j \in 0 .. (I - 1), i \in (0 .. (nn - 1)) \cup (nn .. (m - 1))}
      \cup {<<<<"left", j, m>>, <<"path", j, m * 3>>>> : j \in 0 .. (I - 1)}
      \cup {<<<<"left", j, m>>, <<"path", j, m * 3 + 1>>>> : j \in 0 .. (I - 1)}

\* the index loop starting one level late
path_bindings_from_two(m) ==
    {<<<<"path", index_flag, i * 3 - 1>>, I + i>> : i \in 2 .. (m - 1)}

\* the index flags taken from the instance column: 1 .. m-1
path_bindings(m) ==
    {<<<<"path", index_flag, i * 3 - 1>>, I + i>> : i \in 1 .. (m - 1)}

\* the copy flags, the last index (zero) and the last copy flag (one)
path_assigned(m, nn) ==
    {<<<<"path", copy_flag, i * 3 + 2>>, copy[i]>> :
        i \in (0 .. (nn - 1)) \cup (nn .. (m - 1))}
      \cup {<<<<"path", index_flag, m * 3 - 1>>, 0>>}
      \cup {<<<<"path", copy_flag, m * 3 + 2>>, 1>>}

path_selectors_real_levels(m, nn) ==
    {<<"path", i * 3 + 2>> : i \in 0 .. (nn - 1)}

path_selectors(m, nn) ==
    {<<"path", i * 3 + 2>> : i \in (0 .. (nn - 1)) \cup (nn .. (m - 1))}

path_root(m) == [j \in 0 .. (I - 1) |-> <<"path", j, m * 3>>]

EmptyVec == [i \in {} |-> 0]

LoadPath_before_leaves ==
    /\ pc = "start"
    /\ IF load_path_asserts(M, n)
       THEN /\ pc' = "path"
            /\ s_hash' = s_hash \cup path_selectors(M, n)
            /\ advice' = Assign(advice, path_copies(M, n), path_bindings(M),
                                path_assigned(M, n))
            /\ equality' = equality \cup path_copies(M, n)
            /\ bindings' = bindings \cup path_bindings(M)
            /\ root_node' = path_root(M)
       ELSE /\ pc' = "abort"
            /\ UNCHANGED <<s_hash, advice, equality, bindings, root_node>>
    /\ UNCHANGED <<n, left, right, left_nodes, right_nodes, hash_nodes, copy, public,
                   s_pub, driver, forged>>
    /\ UNCHANGED sponge_vars
    /\ UNCHANGED demo_vars

LoadPath ==
    /\ pc = "leaves"
    /\ IF load_path_asserts(M, n)
       THEN /\ pc' = "path"
            /\ s_hash' = s_hash \cup path_selectors(M, n)
            /\ advice' = Assign(advice, path_copies(M, n), path_bindings(M),
                                path_assigned(M, n))
            /\ equality' = equality \cup path_copies(M, n)
            /\ bindings' = bindings \cup path_bindings(M)
            /\ root_node' = path_root(M)
       ELSE /\ pc' = "abort"
            /\ UNCHANGED <<s_hash, advice, equality, bindings, root_node>>
    /\ UNCHANGED <<n, left, right, left_nodes, right_nodes, hash_nodes, copy, public,
                   s_pub, driver, forged>>
    /\ UNCHANGED sponge_vars
    /\ UNCHANGED demo_vars

\* ------------------------------------------------------------ expose_public
expose_bindings_shifted(num, row) == {<<num[i], row + i + 1>> : i \in 0 .. (I - 1)}

expose_bindings(num, row) == {<<num[i], row + i>> : i \in 0 .. (I - 1)}

ExposePublic ==
    /\ pc = "path"
    /\ pc' = "exposed"
    /\ bindings' = bindings \cup expose_bindings(root_node, M + I)
    /\ UNCHANGED <<n, left, right, left_nodes, right_nodes, hash_nodes, copy, public,
                   advice, s_pub, s_hash, equality, root_node, driver, forged>>
    /\ UNCHANGED sponge_vars
    /\ UNCHANGED demo_vars


\* ------------------------------------------------------------ plain path
MaxForge == 2

Bits == [0 .. M -> {0, 1}]

\* the random inputs of gen_merkle_path, fixed to distinct values
InputNode(k) == Vec([j \in 0 .. (I - 1) |-> (3 * k + j + 1) % P])

\* level i from level i-1: the hash goes to the side the bit names, the other
\* side is a fresh input, or the hash again on the last level
PlainStep(prev, nn, bits, i) ==
    LET h == HashOf(prev.l, prev.r)
        element == IF i < nn THEN InputNode(i + 1) ELSE h
    IN  IF bits[i] = 1 THEN [l |-> element, r |-> h]
        ELSE [l |-> h, r |-> element]

RECURSIVE PlainLevel(_, _, _)
\* the pair (left[i], right[i]) of gen_merkle_path(nn, m) drawing the bits `bits`
PlainLevel(nn, bits, i) ==
    IF i = 0 THEN [l |-> InputNode(0), r |-> InputNode(1)]
    ELSE PlainStep(PlainLevel(nn, bits, i - 1), nn, bits, i)

get_leaf(l, r, index) == IF index[0] = 1 THEN r[0] ELSE l[0]

get_root(r) == r[Length(r) - 1]

get_copy_value(l, m) == [i \in 0 .. m |-> IF i < Length(l) THEN 0 ELSE 1]

\* leaf ++ index ++ root
PublicInput(leaf, index, root) ==
    [k \in 0 .. (2 * I + Length(index) - 1) |->
        IF k < I THEN leaf[k]
        ELSE IF k < I + Length(index) THEN index[k - I]
        ELSE root[k - I - Length(index)]]

\* tests.rs: gen_merkle_path(n, m), then the witness and the public input
GenMerklePath ==
    /\ pc = "init"
    /\ \E nn \in 0 .. M, bits \in Bits :
        IF nn = 0
        THEN \* inputs holds one element and inputs[1] is out of range
             /\ pc' = "abort"
             /\ n' = nn
             /\ UNCHANGED <<left, right, copy, public>>
        ELSE LET l == [i \in 0 .. nn |-> PlainLevel(nn, bits, i).l]
                 r == [i \in 0 .. nn |-> PlainLevel(nn, bits, i).r]
                 index == [i \in 0 .. (M - 1) |-> bits[i]]
             IN  /\ pc' = "witness"
                 /\ n' = nn
                 /\ left' = l
                 /\ right' = r
                 /\ copy' = get_copy_value(l, M)
                 /\ public' = PublicInput(get_leaf(l, r, index), index, get_root(r))
    /\ driver' = "circuit"
    /\ UNCHANGED <<left_nodes, right_nodes, hash_nodes, advice, s_pub, s_hash,
                   equality, bindings, root_node, forged>>
    /\ UNCHANGED sponge_vars
    /\ UNCHANGED demo_vars

\* ------------------------------------------------------------ synthesize
\* MerklePathCircuit::synthesize up to the calls of the Merkle chip: one sponge
\* invocation per level 0 .. n-1, then one per level n .. M on the level-n pair
Synthesize ==
    /\ pc = "witness"
    /\ IF element_size = I /\ Length(left) - 1 <= M
       THEN /\ pc' = "start"
            /\ left_nodes' = [i \in (0 .. (n - 1)) \cup (n .. M) |->
                                IF i < n THEN left[i] ELSE left[n]]
            /\ right_nodes' = [i \in (0 .. (n - 1)) \cup (n .. M) |->
                                IF i < n THEN right[i] ELSE right[n]]
            /\ hash_nodes' = [i \in (0 .. (n - 1)) \cup (n .. M) |->
                                IF i < n THEN HashOf(left[i], right[i])
                                ELSE HashOf(left[n], right[n])]
       ELSE /\ pc' = "abort"
            /\ UNCHANGED <<left_nodes, right_nodes, hash_nodes>>
    /\ UNCHANGED <<n, left, right, copy, public, advice, s_pub, s_hash, equality,
                   bindings, root_node, driver, forged>>
    /\ UNCHANGED sponge_vars
    /\ UNCHANGED demo_vars

\* ------------------------------------------------------------ direct caller
\* Arguments of a direct call of the chip: a path of real length nn whose
\* levels nn .. M replicate the root, the hash of every level below M, and the
\* copy flags 0 on the hashing levels and 1 from level nn on.
ChipLevel(nn, bits, i) ==
    IF nn = 0 THEN [l |-> InputNode(0), r |-> InputNode(0)]
    ELSE PlainLevel(nn, bits, IF i < nn THEN i ELSE nn)

ChipInputs ==
    /\ pc = "init"
    /\ \E nn \in 0 .. M, bits \in Bits :
        /\ bits[M] = 0
        /\ LET l == [i \in 0 .. M |-> ChipLevel(nn, bits, i).l]
               r == [i \in 0 .. M |-> ChipLevel(nn, bits, i).r]
               index == [i \in 0 .. (M - 1) |-> bits[i]]
           IN  /\ n' = nn
               /\ left_nodes' = l
               /\ right_nodes' = r
               /\ hash_nodes' = [i \in 0 .. (M - 1) |-> HashOf(l[i], r[i])]
               /\ copy' = [i \in 0 .. M |-> IF i < nn THEN 0 ELSE 1]
               /\ public' = PublicInput(get_leaf(l, r, index), index, l[M])
    /\ pc' = "start"
    /\ driver' = "chip"
    /\ UNCHANGED <<left, right, advice, s_pub, s_hash, equality, bindings,
                   root_node, forged>>
    /\ UNCHANGED sponge_vars
    /\ UNCHANGED demo_vars

\* a vector without its last element, or with its last element once more
Resized(v, len) == [i \in 0 .. (len - 1) |-> IF i < Length(v) THEN v[i] ELSE v[Length(v) - 1]]

\* Arguments of a direct call that break one of load_path's preconditions:
\* one of left, right, copy, hash an element shorter or longer, or n = M + 1
ChipMalformed ==
    /\ pc = "init"
    /\ \E bits \in Bits, arg \in {"left", "right", "copy", "hash", "n"}, d \in {-1, 1} :
        /\ bits[M] = 0
        /\ arg = "n" => d = 1
        /\ LET l == [i \in 0 .. M |-> ChipLevel(M, bits, i).l]
               r == [i \in 0 .. M |-> ChipLevel(M, bits, i).r]
               h == [i \in 0 .. (M - 1) |-> HashOf(l[i], r[i])]
               cp == [i \in 0 .. M |-> IF i < M THEN 0 ELSE 1]
               index == [i \in 0 .. (M - 1) |-> bits[i]]
           IN  /\ n' = IF arg = "n" THEN M + 1 ELSE M
               /\ left_nodes' = IF arg = "left" THEN Resized(l, M + 1 + d) ELSE l
               /\ right_nodes' = IF arg = "right" THEN Resized(r, M + 1 + d) ELSE r
               /\ hash_nodes' = IF arg = "hash" THEN Resized(h, M + d) ELSE h
               /\ copy' = IF arg = "copy" THEN Resized(cp, M + 1 + d) ELSE cp
               /\ public' = PublicInput(get_leaf(l, r, index), index, l[M])
    /\ pc' = "start"
    /\ driver' = "malformed"
    /\ UNCHANGED <<left, right, advice, s_pub, s_hash, equality, bindings,
                   root_node, forged>>
    /\ UNCHANGED sponge_vars
    /\ UNCHANGED demo_vars

\* ------------------------------------------------------------ the prover
\* values a dishonest prover tries in place of v: the other bit (or another
\* field element) and a non-boolean
ForgeVals(v) == {FSub(1, v), 2} \ {v}

CanForge(id) ==
    /\ pc = "start"
    /\ driver = "chip"
    /\ Cardinality(forged) < MaxForge
    /\ id \notin forged

HashForged(i) == \E j \in 0 .. (I - 1) : <<"hash", i, j>> \in forged

\* the prover feeds another left or right value to a level's sponge: the
\* level's hash follows
ForgeNode ==
    \E i \in DOMAIN left_nodes \cap DOMAIN right_nodes, j \in 0 .. (I - 1),
       side \in {"left", "right"} :
      \E v \in ForgeVals(IF side = "left" THEN left_nodes[i][j] ELSE right_nodes[i][j]) :
        /\ CanForge(<<side, i, j>>)
        /\ left_nodes' = IF side = "left" THEN [left_nodes EXCEPT ![i][j] = v]
                         ELSE left_nodes
        /\ right_nodes' = IF side = "right" THEN [right_nodes EXCEPT ![i][j] = v]
                          ELSE right_nodes
        /\ hash_nodes' = IF i \in DOMAIN hash_nodes /\ ~HashForged(i)
                         THEN [hash_nodes EXCEPT ![i] = HashOf(left_nodes'[i], right_nodes'[i])]
                         ELSE hash_nodes
        /\ forged' = forged \cup {<<side, i, j>>}
        /\ UNCHANGED <<pc, n, left, right, copy, public, advice, s_pub, s_hash,
                       equality, bindings, root_node, driver>>
        /\ UNCHANGED sponge_vars
        /\ UNCHANGED demo_vars

\* the prover hands the chip a hash cell of another value, among them the
\* values of the next level
ForgeHash ==
    \E i \in {k \in DOMAIN hash_nodes \cap (0 .. (M - 1)) :
                k + 1 \in DOMAIN left_nodes \cap DOMAIN right_nodes},
       j \in 0 .. (I - 1) :
      \E v \in (ForgeVals(hash_nodes[i][j])
                   \cup {left_nodes[i + 1][j], right_nodes[i + 1][j]})
                 \ {hash_nodes[i][j]} :
        /\ CanForge(<<"hash", i, j>>)
        /\ hash_nodes' = [hash_nodes EXCEPT ![i][j] = v]
        /\ forged' = forged \cup {<<"hash", i, j>>}
        /\ UNCHANGED <<pc, n, left, right, left_nodes, right_nodes, copy, public,
                       advice, s_pub, s_hash, equality, bindings, root_node, driver>>
        /\ UNCHANGED sponge_vars
        /\ UNCHANGED demo_vars

ForgeCopy ==
    \E i \in DOMAIN copy :
      \E v \in ForgeVals(copy[i]) :
        /\ CanForge(<<"copy", i, 0>>)
        /\ copy' = [copy EXCEPT ![i] = v]
        /\ forged' = forged \cup {<<"copy", i, 0>>}
        /\ UNCHANGED <<pc, n, left, right, left_nodes, right_nodes, hash_nodes, public,
                       advice, s_pub, s_hash, equality, bindings, root_node, driver>>
        /\ UNCHANGED sponge_vars
        /\ UNCHANGED demo_vars

\* another claimed public input
ForgePublic ==
    \E r \in DOMAIN public :
      \E v \in ForgeVals(public[r]) :
        /\ CanForge(<<"public", r, 0>>)
        /\ public' = [public EXCEPT ![r] = v]
        /\ forged' = forged \cup {<<"public", r, 0>>}
        /\ UNCHANGED <<pc, n, left, right, left_nodes, right_nodes, hash_nodes, copy,
                       advice, s_pub, s_hash, equality, bindings, root_node, driver>>
        /\ UNCHANGED sponge_vars
        /\ UNCHANGED demo_vars

\* after synthesis the prover overwrites one advice cell of the chip's regions
Tamper ==
    \E c \in RegionCells :
      \E v \in ForgeVals(advice[c]) :
        /\ pc = "exposed"
        /\ forged = {}
        /\ advice' = [advice EXCEPT ![c] = v]
        /\ forged' = {<<"cell", c[1], c[2], c[3]>>}
        /\ UNCHANGED <<pc, n, left, right, left_nodes, right_nodes, hash_nodes, copy,
                       public, s_pub, s_hash, equality, bindings, root_node, driver>>
        /\ UNCHANGED sponge_vars
        /\ UNCHANGED demo_vars

\* ------------------------------------------------------------ sponge chip
\* PoseidonChip: three kinds of regions on the WIDTH state columns and the
\* WIDTH fixed columns of the round constants; a cell is <<region, column, row>>
rate == W - 1

\* configure: v2 = v * v; v2 * v2 * v
pow_5(v) == FMul(FMul(FMul(v, v), FMul(v, v)), v)

RECURSIVE mix_to(_, _, _)
mix_to(v, i, k) ==
    IF k = 0 THEN 0 ELSE FAdd(mix_to(v, i, k - 1), FMul(v[k - 1], Mds[i][k - 1]))

\* configure: the sum over j of v[j] * mds[i][j]
mix(v, i) == mix_to(v, i, W)

add_inputs_no_capacity(cl, reg, row) ==
    \A idx \in 0 .. (rate - 1) :
        FSub(FAdd(cl[<<reg, idx, row - 1>>], cl[<<reg, idx, row>>]),
             cl[<<reg, idx, row + 1>>]) = 0

\* gate "add-inputs": previous row + current row = next row on the rate
\* columns, previous row = next row on the capacity column
add_inputs(cl, reg, row) ==
    /\ \A idx \in 0 .. (rate - 1) :
        FSub(FAdd(cl[<<reg, idx, row - 1>>], cl[<<reg, idx, row>>]),
             cl[<<reg, idx, row + 1>>]) = 0
    /\ FSub(cl[<<reg, rate, row - 1>>], cl[<<reg, rate, row + 1>>]) = 0

full_box_rate_only(cl, fx, reg, row) ==
    \A i \in 0 .. (rate - 1) :
        FSub(mix([j \in 0 .. (W - 1) |->
                    pow_5(FAdd(cl[<<reg, j, row>>], fx[<<reg, j, row>>]))], i),
             cl[<<reg, i, row + 1>>]) = 0

\* gate "full box": next row = mds * pow_5(current row + arcs)
full_box(cl, fx, reg, row) ==
    \A i \in 0 .. (W - 1) :
        FSub(mix([j \in 0 .. (W - 1) |->
                    pow_5(FAdd(cl[<<reg, j, row>>], fx[<<reg, j, row>>]))], i),
             cl[<<reg, i, row + 1>>]) = 0

\* gate "partial box": pow_5 on column 0 only
partial_box(cl, fx, reg, row) ==
    \A i \in 0 .. (W - 1) :
        FSub(mix([j \in 0 .. (W - 1) |->
                    IF j = 0
                    THEN pow_5(FAdd(cl[<<reg, j, row>>], fx[<<reg, j, row>>]))
                    ELSE FAdd(cl[<<reg, j, row>>], fx[<<reg, j, row>>])], i),
             cl[<<reg, i, row + 1>>]) = 0

\* the constraint system on the sponge regions: gates where their selector
\* is enabled, copy constraints, instance bindings
SpongeGatesHold(cl) ==
    /\ \A e \in s_add_inputs : add_inputs(cl, e[1], e[2])
    /\ \A e \in s_fbox : full_box(cl, fixed, e[1], e[2])
    /\ \A e \in s_pbox : partial_box(cl, fixed, e[1], e[2])

SpongeCopiesHold(cl) == \A e \in equality : cl[e[1]] = cl[e[2]]

SpongeBindingsHold(cl) == \A b \in bindings : cl[b[1]] = InstanceAt(b[2])

SpongeSatisfied ==
    SpongeGatesHold(cells) /\ SpongeCopiesHold(cells) /\ SpongeBindingsHold(cells)

\* the values of a State's cells
StateValue(cl, st) == Vec([i \in 0 .. (W - 1) |-> cl[st[i]]])

\* row `row` of region `reg`
StateCells(reg, row) == [i \in 0 .. (W - 1) |-> <<reg, i, row>>]

\* regions are appended in call order
NextRegion == Length(regions)

Append0(v, e) == [i \in 0 .. Length(v) |-> IF i < Length(v) THEN v[i] ELSE e]

\* ------------------------------------------------------------ sponge calls
\* initiate: init = [0; rate] ++ [capacity]
init_capacity_first == [i \in 0 .. (W - 1) |-> IF i = 0 THEN Capacity % P ELSE 0]

init == [i \in 0 .. (W - 1) |-> IF i < rate THEN 0 ELSE Capacity % P]

\* witness of the permutation region: x * x * x * x * x
pbox(v) == FMul(FMul(FMul(FMul(v, v), v), v), v)

full_rounds_at_upto(r, fr, pr) == r <= fr \div 2 \/ r >= fr \div 2 + pr

\* r < half_rounds || r >= mid
full_rounds_at(r, fr, pr) == r < fr \div 2 \/ r >= fr \div 2 + pr

temp_pbox_all(prev, r, fr, pr) ==
    Vec([j \in 0 .. (W - 1) |-> pbox(FAdd(prev[j], Arks(r)[j]))])

\* temp = round_output + arc, then pbox on all of it or on temp[0]
temp(prev, r, fr, pr) ==
    Vec([j \in 0 .. (W - 1) |->
            IF full_rounds_at(r, fr, pr) \/ j = 0
            THEN pbox(FAdd(prev[j], Arks(r)[j]))
            ELSE FAdd(prev[j], Arks(r)[j])])

RECURSIVE mds_sum(_, _, _)
\* sum = sum + temp[j] * mds[i][j]
mds_sum(t, i, k) ==
    IF k = 0 THEN 0 ELSE FAdd(mds_sum(t, i, k - 1), FMul(t[k - 1], Mds[i][k - 1]))

RECURSIVE round_output(_, _, _, _)
\* the state the region holds in row r: the input state after rounds 0 .. r-1
round_output(prev, r, fr, pr) ==
    IF r = 0 THEN prev
    ELSE Vec([i \in 0 .. (W - 1) |->
                mds_sum(temp(round_output(prev, r - 1, fr, pr), r - 1, fr, pr), i, W)])

initiate_cells(reg) ==
    [c \in {<<reg, i, 0>> : i \in 0 .. (W - 1)} |-> init[c[2]]]

load_inputs_asserts_at_least(xs) == Length(xs) >= rate

\* assert_eq!(inputs.len(), rate)
load_inputs_asserts(xs) == Length(xs) = rate

\* row 0: the state, row 1: the inputs, row 2: state + inputs on the rate
\* columns and the state on the capacity column
load_inputs_cells(reg, prev, xs) ==
    [c \in {<<reg, i, 0>> : i \in 0 .. (W - 1)}
            \cup {<<reg, i, 1>> : i \in 0 .. (rate - 1)}
            \cup {<<reg, i, 2>> : i \in 0 .. (W - 1)} |->
        IF c[3] = 0 THEN prev[c[2]]
        ELSE IF c[3] = 1 THEN xs[c[2]]
        ELSE IF c[2] < rate THEN FAdd(prev[c[2]], xs[c[2]])
        ELSE prev[c[2]]]

\* rows 0 .. all of the permutation region
permutation_cells(reg, prev, fr, pr) ==
    [c \in {<<reg, i, r>> : i \in 0 .. (W - 1), r \in 0 .. (fr + pr)} |->
        round_output(prev, c[3], fr, pr)[c[2]]]

\* the round constants, one fixed row per round
permutation_fixed(reg, fr, pr) ==
    [c \in {<<reg, i, r>> : i \in 0 .. (W - 1), r \in 0 .. (fr + pr - 1)} |->
        Arks(c[3])[c[2]]]

\* copy_advice of a State into row 0 of a region
state_copies(st, reg) == {<<st[i], <<reg, i, 0>>>> : i \in 0 .. (W - 1)}

\* circuit: chunk c of x followed by the pad
chunk_inputs(xs, c) ==
    [i \in 0 .. (element_size + Length(Pad) - 1) |->
        IF i < element_size THEN xs[c * element_size + i] ELSE Pad[i - element_size]]

\* bounds of the callers
MaxInput == 2

MaxCalls == 3

\* what a direct caller passes as inputs: one element less or more than the
\* rate as well
CallerInputs ==
    {[i \in 0 .. (len - 1) |-> (v + i) % P] : len \in (rate - 1) .. (rate + 1), v \in {0, 3}}

\* the call the circuit makes next
CircuitCall ==
    IF call.op = "synthesize" THEN "initiate"
    ELSE IF call.op = "load_inputs" THEN "permutation"
    ELSE IF call.op \in {"initiate", "permutation"}
         THEN IF chunk < Length(circuit_x) \div element_size
              THEN "load_inputs" ELSE "expose_public"
    ELSE "none"

\* arc_paras: the table of S::arks(), one row per round of the Spec
ArksLength == FullRounds + PartialRounds

\* round counts a caller may pass to permutation: those of the Spec, an odd
\* full_round, fewer rounds than the table has rows, more rounds than that
CallerRounds ==
    {<<FullRounds, PartialRounds>>,
     <<FullRounds + 1, PartialRounds - 1>>,
     <<FullRounds, PartialRounds - 1>>,
     <<FullRounds, PartialRounds + 1>>}

\* config.arc_paras[r] is out of range for a round r past the table, and
\* outputs.try_into().unwrap() fails when there is no round at all
permutation_panics(fr, pr) == fr + pr > ArksLength \/ fr + pr = 0

MayCall(op) ==
    /\ pc = "p_run"
    /\ driver = "circuit" => CircuitCall = op
    /\ driver \in {"chip", "rounds"} =>
        /\ Length(regions) + Cardinality(bindings) < MaxCalls
        /\ op # "initiate" => cur_state # EmptyVec

\* ------------------------------------------------------------ specification
Init ==
    /\ pc = "init"
    /\ n = 0
    /\ left = EmptyVec
    /\ right = EmptyVec
    /\ left_nodes = EmptyVec
    /\ right_nodes = EmptyVec
    /\ hash_nodes = EmptyVec
    /\ copy = EmptyVec
    /\ public = EmptyVec
    /\ advice = [c \in RegionCells |-> 0]
    /\ s_pub = {}
    /\ s_hash = {}
    /\ equality = {}
    /\ bindings = {}
    /\ root_node = EmptyVec
    /\ driver = "none"
    /\ forged = {}
    /\ circuit_x = EmptyVec
    /\ chunk = 0
    /\ cur_state = EmptyVec
    /\ regions = EmptyVec
    /\ cells = EmptyVec
    /\ fixed = EmptyVec
    /\ s_fbox = {}
    /\ s_pbox = {}
    /\ s_add_inputs = {}
    /\ call = [op |-> "none"]
    /\ s_mul = {}
    /\ s_add = {}
    /\ s_cube = {}

Next ==
    \/ GenMerklePath
    \/ Synthesize
    \/ ChipInputs
    \/ ChipMalformed
    \/ ForgeNode
    \/ ForgeHash
    \/ ForgeCopy
    \/ ForgePublic
    \/ LoadLeaves
    \/ LoadPath
    \/ ExposePublic
    \/ Tamper

Spec == Init /\ [][Next]_vars

\* tests.rs function_poseidon: a circuit on x with the reference digest as
\* the public input
FunctionPoseidon ==
    /\ pc = "init"
    /\ \E len \in 0 .. MaxInput :
        \E xs \in [0 .. (len - 1) -> F] :
            /\ circuit_x' = xs
            /\ public' = hash(xs)
    /\ pc' = "p_synth"
    /\ driver' = "circuit"
    /\ UNCHANGED <<equality, bindings, forged>>
    /\ UNCHANGED merkle_vars
    /\ UNCHANGED demo_vars
    /\ UNCHANGED <<chunk, cur_state, regions, cells, fixed, s_fbox, s_pbox,
                   s_add_inputs, call>>

\* PoseidonCircuit::synthesize up to its first chip call
PoseidonSynthesize ==
    /\ pc = "p_synth"
    /\ call' = [op |-> "synthesize"]
    /\ IF Length(circuit_x) % element_size = 0
            /\ Length(circuit_x) \div element_size > 0
       THEN pc' = "p_run"
       ELSE pc' = "abort"
    /\ UNCHANGED <<public, equality, bindings, driver, forged>>
    /\ UNCHANGED merkle_vars
    /\ UNCHANGED demo_vars
    /\ UNCHANGED <<circuit_x, chunk, cur_state, regions, cells, fixed, s_fbox,
                   s_pbox, s_add_inputs>>

\* a caller of the chip other than the circuit
PoseidonCaller ==
    /\ pc = "init"
    /\ \E v \in {0, 3} : public' = [k \in 0 .. (element_size - 1) |-> v]
    /\ pc' = "p_run"
    /\ driver' = "chip"
    /\ UNCHANGED <<equality, bindings, forged>>
    /\ UNCHANGED merkle_vars
    /\ UNCHANGED sponge_vars
    /\ UNCHANGED demo_vars

PoseidonInitiate ==
    /\ MayCall("initiate")
    /\ call' = [op |-> "initiate"]
    /\ regions' = Append0(regions, "initiate states")
    /\ cells' = initiate_cells(NextRegion) @@ cells
    /\ cur_state' = StateCells(NextRegion, 0)
    /\ UNCHANGED <<pc, public, equality, bindings, driver, forged>>
    /\ UNCHANGED merkle_vars
    /\ UNCHANGED demo_vars
    /\ UNCHANGED <<circuit_x, chunk, fixed, s_fbox, s_pbox, s_add_inputs>>

\* the prover's initiate: the region of initiate with another value in one of
\* its cells (assign_advice puts no constraint on the value)
ForgeInitiate ==
    /\ MayCall("initiate")
    /\ forged = {}
    /\ \E i \in 0 .. (W - 1) :
        \E v \in ForgeVals(init[i]) :
            /\ cells' = [initiate_cells(NextRegion) EXCEPT ![<<NextRegion, i, 0>>] = v]
                            @@ cells
            /\ forged' = {<<"cell", NextRegion, i, 0>>}
    /\ call' = [op |-> "initiate"]
    /\ regions' = Append0(regions, "initiate states")
    /\ cur_state' = StateCells(NextRegion, 0)
    /\ UNCHANGED <<pc, public, equality, bindings, driver>>
    /\ UNCHANGED merkle_vars
    /\ UNCHANGED demo_vars
    /\ UNCHANGED <<circuit_x, chunk, fixed, s_fbox, s_pbox, s_add_inputs>>

PoseidonLoadInputs ==
    /\ MayCall("load_inputs")
    /\ \E xs \in IF driver = "circuit" THEN {chunk_inputs(circuit_x, chunk)}
                 ELSE CallerInputs :
        /\ call' = [op |-> "load_inputs", inputs |-> xs,
                    input |-> StateValue(cells, cur_state)]
        /\ IF load_inputs_asserts(xs)
           THEN /\ regions' = Append0(regions, "load inputs")
                /\ s_add_inputs' = s_add_inputs \cup {<<NextRegion, 1>>}
                /\ equality' = equality \cup state_copies(cur_state, NextRegion)
                /\ cells' = load_inputs_cells(NextRegion,
                                StateValue(cells, cur_state), xs) @@ cells
                /\ cur_state' = StateCells(NextRegion, 2)
                /\ chunk' = chunk + 1
                /\ pc' = pc
           ELSE /\ pc' = "abort"
                /\ UNCHANGED <<regions, s_add_inputs, equality, cells, cur_state,
                               chunk>>
    /\ UNCHANGED <<public, bindings, driver, forged>>
    /\ UNCHANGED merkle_vars
    /\ UNCHANGED demo_vars
    /\ UNCHANGED <<circuit_x, fixed, s_fbox, s_pbox>>

PoseidonPermutation ==
    /\ MayCall("permutation")
    /\ \E fr \in {rc[1] : rc \in CallerRounds}, pr \in {rc[2] : rc \in CallerRounds} :
        /\ <<fr, pr>> \in IF driver = "rounds" THEN CallerRounds
                           ELSE {<<FullRounds, PartialRounds>>}
        /\ call' = [op |-> "permutation", full_round |-> fr, partial_round |-> pr,
                    input |-> StateValue(cells, cur_state)]
        /\ IF permutation_panics(fr, pr)
           THEN /\ pc' = "abort"
                /\ UNCHANGED <<regions, equality, cells, fixed, s_fbox, s_pbox,
                               cur_state>>
           ELSE /\ regions' = Append0(regions, "permutation")
                /\ equality' = equality \cup state_copies(cur_state, NextRegion)
                /\ cells' = permutation_cells(NextRegion,
                                StateValue(cells, cur_state), fr, pr) @@ cells
                /\ fixed' = permutation_fixed(NextRegion, fr, pr) @@ fixed
                /\ s_fbox' = s_fbox \cup {<<NextRegion, r>> : r \in
                                {q \in 0 .. (fr + pr - 1) : full_rounds_at(q, fr, pr)}}
                /\ s_pbox' = s_pbox \cup {<<NextRegion, r>> : r \in
                                {q \in 0 .. (fr + pr - 1) : ~full_rounds_at(q, fr, pr)}}
                /\ cur_state' = StateCells(NextRegion, fr + pr)
                /\ pc' = pc
    /\ UNCHANGED <<public, bindings, driver, forged>>
    /\ UNCHANGED merkle_vars
    /\ UNCHANGED demo_vars
    /\ UNCHANGED <<circuit_x, chunk, s_add_inputs>>

\* expose_public(states, round): constrain_instance(states[0], output, round);
\* the circuit passes round = size and returns
PoseidonExposePublic ==
    /\ MayCall("expose_public")
    /\ \E round \in IF driver = "circuit" THEN {element_size}
                    ELSE 0 .. element_size :
        /\ call' = [op |-> "expose_public", round |-> round]
        /\ bindings' = bindings \cup {<<cur_state[0], round>>}
    /\ pc' = IF driver = "circuit" THEN "p_done" ELSE pc
    /\ UNCHANGED <<public, equality, driver, forged>>
    /\ UNCHANGED merkle_vars
    /\ UNCHANGED demo_vars
    /\ UNCHANGED <<circuit_x, chunk, cur_state, regions, cells, fixed, s_fbox,
                   s_pbox, s_add_inputs>>

\* tests.rs function_poseidon, second prover: one element of the digest is
\* replaced
ForgeDigest ==
    /\ pc = "p_done"
    /\ forged = {}
    /\ \E k \in DOMAIN public :
        \E v \in F \ {public[k]} :
            /\ public' = [public EXCEPT ![k] = v]
            /\ forged' = {<<"public", k>>}
    /\ UNCHANGED <<pc, equality, bindings, driver>>
    /\ UNCHANGED merkle_vars
    /\ UNCHANGED sponge_vars
    /\ UNCHANGED demo_vars

\* the prover overwrites one advice cell: any cell of the synthesized
\* circuit, a cell of the last region after a direct call
TamperState ==
    /\ pc = "p_done" \/ (pc = "p_run" /\ driver = "chip")
    /\ forged = {}
    /\ \E c \in {d \in DOMAIN cells : driver = "chip" => d[1] = NextRegion - 1} :
        \E v \in ForgeVals(cells[c]) :
            /\ cells' = [cells EXCEPT ![c] = v]
            /\ forged' = {<<"cell", c[1], c[2], c[3]>>}
    /\ pc' = "p_tampered"
    /\ UNCHANGED <<public, equality, bindings, driver>>
    /\ UNCHANGED merkle_vars
    /\ UNCHANGED demo_vars
    /\ UNCHANGED <<circuit_x, chunk, cur_state, regions, fixed, s_fbox, s_pbox,
                   s_add_inputs, call>>

PoseidonNext ==
    \/ FunctionPoseidon
    \/ PoseidonSynthesize
    \/ PoseidonCaller
    \/ PoseidonInitiate
    \/ PoseidonLoadInputs
    \/ PoseidonPermutation
    \/ PoseidonExposePublic
    \/ ForgeDigest
    \/ TamperState
    \/ ForgeInitiate

PoseidonSpec == Init /\ [][PoseidonNext]_vars

\* a caller of the chip that passes its own round counts to permutation
RoundsCaller ==
    /\ pc = "init"
    /\ \E v \in {0, 3} : public' = [k \in 0 .. (element_size - 1) |-> v]
    /\ pc' = "p_run"
    /\ driver' = "rounds"
    /\ UNCHANGED <<equality, bindings, forged>>
    /\ UNCHANGED merkle_vars
    /\ UNCHANGED sponge_vars
    /\ UNCHANGED demo_vars

RoundsNext ==
    \/ RoundsCaller
    \/ PoseidonInitiate
    \/ PoseidonLoadInputs
    \/ PoseidonPermutation
    \/ PoseidonExposePublic

RoundsSpec == Init /\ [][RoundsNext]_vars

\* ------------------------------------------------------------ claims
Done == pc = "exposed"

Accepted == Done /\ Satisfied

\* C1: for every n in 0 .. M and every choice of index bits, synthesizing the
\* circuit on the witness of the plain construction runs without an assertion
\* failure and the constraint system is satisfied on leaf ++ index ++ root.
C1_CircuitAccepts ==
    driver = "circuit" => (pc # "abort" /\ (Done => Satisfied))

\* the node the path has reached at level i: the public leaf, then the hash
\* of every level with copy = 0, replicated over the levels with copy = 1
RECURSIVE Chain(_)
Chain(i) ==
    IF i = 0 THEN PublicLeaf
    ELSE IF CopyFlag(i - 1) = 0 THEN HashRow(i - 1)
    ELSE Chain(i - 1)

HashesGenuine == \A i \in 0 .. (M - 1) : HashRow(i) = HashOf(LeftRow(i), RightRow(i))

\* C2: in every satisfying assignment whose hash cells are the hashes of their
\* levels, every hashing level holds the node reached so far and the public
\* root is the node reached at level M.
C2_Soundness ==
    (Accepted /\ HashesGenuine) =>
        /\ \A i \in 0 .. (M - 1) :
              CopyFlag(i) = 0 => Chain(i) \in {LeftRow(i), RightRow(i)}
        /\ PublicRoot = Chain(M)

C4_HashRelation ==
    Accepted =>
        \A i \in 0 .. (M - 1) :
            CopyFlag(i) = 0 =>
                /\ IndexFlag(i) = 0 => HashRow(i) = LeftRow(i + 1)
                /\ IndexFlag(i) = 1 => HashRow(i) = RightRow(i + 1)

\* a hashing level placed on the right, and a copying level whose hash is on
\* neither side of the next level
C4_Witness ==
    /\ Accepted
    /\ \E i \in 0 .. (M - 1) :
          CopyFlag(i) = 0 /\ IndexFlag(i) = 1 /\ HashRow(i) = RightRow(i + 1)
             /\ HashRow(i) # LeftRow(i + 1)
    /\ \E i \in 0 .. (M - 1) :
          CopyFlag(i) = 1 /\ HashRow(i) \notin {LeftRow(i + 1), RightRow(i + 1)}

\* C5: in every satisfying assignment, a level with copy flag 1 has left of
\* the next level equal to its left when its index is 0, and right of the next
\* level equal to its right when its index is 1.
C5_CopyRelation ==
    Accepted =>
        \A i \in 0 .. (M - 1) :
            CopyFlag(i) = 1 =>
                /\ IndexFlag(i) = 0 => LeftRow(i + 1) = LeftRow(i)
                /\ IndexFlag(i) = 1 => RightRow(i + 1) = RightRow(i)

\* a copying level selected on the right, and a hashing level whose selected
\* side changes
C5_Witness ==
    /\ Accepted
    /\ \E i \in 0 .. (M - 1) :
          CopyFlag(i) = 1 /\ IndexFlag(i) = 1 /\ RightRow(i + 1) = RightRow(i)
    /\ \E i \in 0 .. (M - 1) :
          CopyFlag(i) = 0 /\ IndexFlag(i) = 0 /\ LeftRow(i + 1) # LeftRow(i)

\* a copy vector with a 1 followed later by a 0, the 0 at a position <= last
OneThenZero(last) ==
    \E i \in DOMAIN copy, j \in DOMAIN copy :
        i < j /\ j <= last /\ copy[i] = 1 /\ copy[j] = 0

\* C6 as stated: a copy vector of length M+1 with a 1 at some position and a 0
\* at a later position j <= M leaves the system unsatisfied.
C6_Original == (Done /\ OneThenZero(M)) => ~Satisfied

\* C6 amended: a copy vector with a 1 at some position and a 0 at a later
\* position j <= M-1 leaves the system unsatisfied (copy[M] is not read).
C6_Monotone == (Done /\ OneThenZero(M - 1)) => ~Satisfied

C6_Witness == Done /\ OneThenZero(M - 1) /\ ~Satisfied

\* C7: in every satisfying assignment the copy flag and the index flag of
\* every level's hash row are 0 or 1.
C7_BooleanFlags ==
    Accepted =>
        \A i \in 0 .. (M - 1) : CopyFlag(i) \in {0, 1} /\ IndexFlag(i) \in {0, 1}

\* accepted with flags of both values, after the prover changed an input
C7_Witness ==
    /\ Accepted
    /\ forged # {}
    /\ \E i \in 0 .. (M - 1) : CopyFlag(i) = 0 /\ IndexFlag(i) = 1
    /\ \E i \in 0 .. (M - 1) : CopyFlag(i) = 1

\* C8: in every satisfying assignment the public leaf is left[0] when the
\* public level-0 index is 0 and right[0] when it is 1; that index is boolean
\* and the copy flag of the selection row is 0.
C8_LeafSelection ==
    Accepted =>
        /\ PublicIndex(0) \in {0, 1}
        /\ PublicIndex(0) = 0 => PublicLeaf = left_nodes[0]
        /\ PublicIndex(0) = 1 => PublicLeaf = right_nodes[0]
        /\ advice[<<"leaves", copy_flag, 2>>] = 0

\* the right leaf selected, the left leaf being another value
C8_Witness ==
    /\ Accepted
    /\ PublicIndex(0) = 1
    /\ PublicLeaf = right_nodes[0]
    /\ PublicLeaf # left_nodes[0]

\* C9: load_path returns the cells of row 3M, rows 3M and 3M+1 hold the same
\* value, and in every satisfying assignment the public root equals both.
C9_RootBinding ==
    /\ Done => root_node = [j \in 0 .. (I - 1) |-> <<"path", j, 3 * M>>]
    /\ Accepted =>
          /\ PublicRoot = LeftRow(M)
          /\ PublicRoot = RightRow(M)
          /\ PublicRoot = left_nodes[M]

\* the root bound while the right input of level M is another value
C9_Witness == Accepted /\ PublicRoot = RightRow(M) /\ right_nodes[M] # left_nodes[M]

\* the index cell of a gate row is bound to some row of the instance column
IndexBound(g) == \E b \in bindings : b[1] = <<g[1], index_flag, g[2]>>

\* C10 as stated: the index cell of every enabled gate row is bound to a row
\* of the instance column.
C10_Original == Done => \A g \in s_pub \cup s_hash : IndexBound(g)

\* C10 amended: the index cell of every enabled gate row except the hash row
\* of level M-1 is bound to the instance column (the selection row to row I,
\* the hash row of level i <= M-2 to row I+i+1) and holds that row's value in
\* every satisfying assignment.
C10_IndexBound ==
    Done =>
        /\ \A g \in (s_pub \cup s_hash) \ {<<"path", 3 * M - 1>>} : IndexBound(g)
        /\ <<<<"leaves", index_flag, 2>>, I>> \in bindings
        /\ \A i \in 0 .. (M - 2) :
              <<<<"path", index_flag, 3 * i + 2>>, I + i + 1>> \in bindings
        /\ Satisfied =>
              /\ advice[<<"leaves", index_flag, 2>>] = PublicIndex(0)
              /\ \A i \in 0 .. (M - 2) : IndexFlag(i) = PublicIndex(i + 1)

\* accepted with a level's public index set, after the prover changed an input
C10_Witness ==
    /\ Accepted
    /\ forged # {}
    /\ \E i \in 0 .. (M - 2) : IndexFlag(i) = 1 /\ PublicIndex(i + 1) = 1

\* C11: the instance column is read in the fixed order leaf (rows 0 .. I-1),
\* M index flags (rows I .. I+M-1), root (rows I+M .. I+M+I-1): once the chip
\* has run, each of these 2I+M rows is bound to exactly the cell of that
\* meaning, and no other instance row is bound.
PublicCell(r) ==
    IF r < I THEN <<"leaves", r, 2>>
    ELSE IF r = I THEN <<"leaves", index_flag, 2>>
    ELSE IF r < I + M THEN <<"path", index_flag, 3 * (r - I) - 1>>
    ELSE <<"path", r - I - M, 3 * M>>

C11_PublicLayout ==
    Done =>
        /\ {b[2] : b \in bindings} = 0 .. (2 * I + M - 1)
        /\ \A b \in bindings : b[1] = PublicCell(b[2])

C11_Witness ==
    /\ Accepted
    /\ Length(public) = 2 * I + M
    /\ \E i \in 1 .. (M - 1) : PublicIndex(i) = 1

\* ------------------------------------------------------------ arithmetic chip
\* ArthChip: two advice columns; every instruction assigns one region. A
\* layout is the regions, cells, selectors, copies and bindings assigned so
\* far, and `num` is the cell of the Number the last instruction returned.
NoLayout ==
    [regions |-> EmptyVec, cells |-> EmptyVec, equality |-> {}, bindings |-> {},
     s_mul |-> {}, s_add |-> {}, s_cube |-> {}, num |-> <<0, 0, 0>>]

\* gate "mul": s_mul * (lhs * rhs - out)
mul_gate(cl, reg, row) ==
    FSub(FMul(cl[<<reg, 0, row>>], cl[<<reg, 1, row>>]), cl[<<reg, 0, row + 1>>]) = 0

\* gate "add": s_add * (lhs + rhs - out)
add_gate(cl, reg, row) ==
    FSub(FAdd(cl[<<reg, 0, row>>], cl[<<reg, 1, row>>]), cl[<<reg, 0, row + 1>>]) = 0

cube_gate_square(cl, reg, row) ==
    FSub(FMul(cl[<<reg, 0, row>>], cl[<<reg, 0, row>>]), cl[<<reg, 0, row + 1>>]) = 0

\* gate "cube": s_pow3 * (lhs * lhs * lhs - out)
cube_gate(cl, reg, row) ==
    FSub(FMul(FMul(cl[<<reg, 0, row>>], cl[<<reg, 0, row>>]), cl[<<reg, 0, row>>]),
         cl[<<reg, 0, row + 1>>]) = 0

load_private(lay, a) ==
    [lay EXCEPT !.regions = Append0(lay.regions, "load private"),
                !.cells = (<<Length(lay.regions), 0, 0>> :> a) @@ lay.cells,
                !.num = <<Length(lay.regions), 0, 0>>]

\* assign_advice_from_instance: the cell takes the value of the instance row
\* and is bound to it
load_public(lay, row) ==
    [lay EXCEPT !.regions = Append0(lay.regions, "load public"),
                !.cells = (<<Length(lay.regions), 0, 0>> :> InstanceAt(row)) @@ lay.cells,
                !.bindings = lay.bindings \cup {<<<<Length(lay.regions), 0, 0>>, row>>},
                !.num = <<Length(lay.regions), 0, 0>>]

mul(lay, a, b) ==
    [lay EXCEPT !.regions = Append0(lay.regions, "mul"),
                !.s_mul = lay.s_mul \cup {<<Length(lay.regions), 0>>},
                !.equality = lay.equality \cup {<<a, <<Length(lay.regions), 0, 0>>>>,
                                                <<b, <<Length(lay.regions), 1, 0>>>>},
                !.cells = (<<Length(lay.regions), 0, 0>> :> lay.cells[a]
                            @@ <<Length(lay.regions), 1, 0>> :> lay.cells[b]
                            @@ <<Length(lay.regions), 0, 1>> :>
                                    FMul(lay.cells[a], lay.cells[b])) @@ lay.cells,
                !.num = <<Length(lay.regions), 0, 1>>]

add(lay, a, b) ==
    [lay EXCEPT !.regions = Append0(lay.regions, "add"),
                !.s_add = lay.s_add \cup {<<Length(lay.regions), 0>>},
                !.equality = lay.equality \cup {<<a, <<Length(lay.regions), 0, 0>>>>,
                                                <<b, <<Length(lay.regions), 1, 0>>>>},
                !.cells = (<<Length(lay.regions), 0, 0>> :> lay.cells[a]
                            @@ <<Length(lay.regions), 1, 0>> :> lay.cells[b]
                            @@ <<Length(lay.regions), 0, 1>> :>
                                    FAdd(lay.cells[a], lay.cells[b])) @@ lay.cells,
                !.num = <<Length(lay.regions), 0, 1>>]

cube(lay, a) ==
    [lay EXCEPT !.regions = Append0(lay.regions, "pow3"),
                !.s_cube = lay.s_cube \cup {<<Length(lay.regions), 0>>},
                !.equality = lay.equality \cup {<<a, <<Length(lay.regions), 0, 0>>>>},
                !.cells = (<<Length(lay.regions), 0, 0>> :> lay.cells[a]
                            @@ <<Length(lay.regions), 0, 1>> :>
                                    FMul(FMul(lay.cells[a], lay.cells[a]), lay.cells[a]))
                            @@ lay.cells,
                !.num = <<Length(lay.regions), 0, 1>>]

\* constrain_instance(num, instance, row)
expose_public(lay, num, row) ==
    [lay EXCEPT !.bindings = lay.bindings \cup {<<num, row>>}]

\* DemoCircuit1::synthesize: x, y, x3 = x^3, x3_x = x3 + x, y_x3_x = x3_x * y,
\* exposed in instance row 1
DemoLayout(xv) ==
    LET x_num == load_private(NoLayout, xv)
        y_num == load_public(x_num, 0)
        x3 == cube(y_num, x_num.num)
        x3_x == add(x3, x3.num, x_num.num)
        y_x3_x == mul(x3_x, x3_x.num, y_num.num)
    IN  expose_public(y_x3_x, y_x3_x.num, 1)

\* tests.rs fuction_demo1: the circuit on x and the public inputs [c, result]
FuctionDemo1 ==
    /\ pc = "init"
    /\ \E xv \in F, c \in F, result \in F :
        /\ circuit_x' = [k \in 0 .. 0 |-> xv]
        /\ public' = [k \in 0 .. 1 |-> IF k = 0 THEN c ELSE result]
    /\ pc' = "d_new"
    /\ driver' = "demo"
    /\ UNCHANGED <<equality, bindings, forged>>
    /\ UNCHANGED merkle_vars
    /\ UNCHANGED <<chunk, cur_state, regions, cells, fixed, s_fbox, s_pbox,
                   s_add_inputs, call>>
    /\ UNCHANGED demo_vars

DemoSynthesize ==
    /\ pc = "d_new"
    /\ pc' = "d_done"
    /\ call' = [op |-> "synthesize"]
    /\ regions' = DemoLayout(circuit_x[0]).regions
    /\ cells' = DemoLayout(circuit_x[0]).cells
    /\ equality' = DemoLayout(circuit_x[0]).equality
    /\ bindings' = DemoLayout(circuit_x[0]).bindings
    /\ s_mul' = DemoLayout(circuit_x[0]).s_mul
    /\ s_add' = DemoLayout(circuit_x[0]).s_add
    /\ s_cube' = DemoLayout(circuit_x[0]).s_cube
    /\ UNCHANGED <<public, driver, forged>>
    /\ UNCHANGED merkle_vars
    /\ UNCHANGED <<circuit_x, chunk, cur_state, fixed, s_fbox, s_pbox, s_add_inputs>>

\* the prover overwrites one advice cell of the synthesized demo circuit
DemoTamper ==
    /\ pc = "d_done"
    /\ forged = {}
    /\ \E c \in DOMAIN cells :
        \E v \in F \ {cells[c]} :
            /\ cells' = [cells EXCEPT ![c] = v]
            /\ forged' = {<<"cell", c[1], c[2], c[3]>>}
    /\ UNCHANGED <<pc, public, equality, bindings, driver>>
    /\ UNCHANGED merkle_vars
    /\ UNCHANGED <<circuit_x, chunk, cur_state, regions, fixed, s_fbox, s_pbox,
                   s_add_inputs, call>>
    /\ UNCHANGED demo_vars

\* MockProver::verify on the demo circuit
DemoSatisfied ==
    /\ \A e \in s_mul : mul_gate(cells, e[1], e[2])
    /\ \A e \in s_add : add_gate(cells, e[1], e[2])
    /\ \A e \in s_cube : cube_gate(cells, e[1], e[2])
    /\ \A e \in equality : cells[e[1]] = cells[e[2]]
    /\ \A b \in bindings : cells[b[1]] = InstanceAt(b[2])

DemoNext ==
    \/ FuctionDemo1
    \/ DemoSynthesize
    \/ DemoTamper

DemoSpec == Init /\ [][DemoNext]_vars

\* ------------------------------------------------------------ sponge claims
\* a chip call has returned and the prover has changed nothing
Returned(op) == call.op = op /\ pc \in {"p_run", "p_done"} /\ forged = {}

\* the regions of one kind
RegionsOf(kind) == {k \in DOMAIN regions : regions[k] = kind}

\* what permutation returns for every state, tabulated
ChipPermutationTable ==
    Vec([s \in States |->
            round_output(s, FullRounds + PartialRounds, FullRounds, PartialRounds)])

\* C12: for every initial state the state PoseidonChip::permutation returns
\* equals, element for element, the output of the reference permutation with
\* the same round structure.
C12_PermutationMatchesReference ==
    Returned("permutation") =>
        /\ StateValue(cells, cur_state) = permutation(call.input)
        /\ ChipPermutationTable = PermTable

C12_Witness ==
    /\ Returned("permutation")
    /\ driver = "circuit"
    /\ chunk = 2
    /\ StateValue(cells, cur_state) # call.input

\* C13: in a permutation region the full-round selector is enabled on round
\* row r iff r < full_rounds/2 or r >= full_rounds/2 + partial_rounds, and the
\* partial-round selector on the other round rows; each round row has exactly
\* one of the two selectors and the final output row has neither.
C13_RoundSchedule ==
    /\ \A k \in RegionsOf("permutation") :
        /\ \A r \in 0 .. (FullRounds + PartialRounds - 1) :
            /\ <<k, r>> \in s_fbox <=>
                    (r < FullRounds \div 2 \/ r >= FullRounds \div 2 + PartialRounds)
            /\ <<k, r>> \in s_pbox <=>
                    (r >= FullRounds \div 2 /\ r < FullRounds \div 2 + PartialRounds)
            /\ <<k, r>> \in s_fbox <=> <<k, r>> \notin s_pbox
        /\ <<k, FullRounds + PartialRounds>> \notin s_fbox \cup s_pbox
    /\ \A e \in s_fbox \cup s_pbox :
        /\ e[1] \in RegionsOf("permutation")
        /\ e[2] \in 0 .. (FullRounds + PartialRounds - 1)

C13_Witness ==
    /\ Cardinality(RegionsOf("permutation")) = 2
    /\ s_fbox # {}
    /\ s_pbox # {}

\* C14: in every assignment satisfying the full-round and partial-round gates
\* where they are enabled, row r+1 of a permutation region is the image of
\* row r under round r, so the last row is the permutation of the first; for
\* every state in row r the gate of round r accepts exactly that one image.
RowValue(k, r) == Vec([i \in 0 .. (W - 1) |-> cells[<<k, i, r>>]])

BoxGatesHold ==
    /\ \A e \in s_fbox : full_box(cells, fixed, e[1], e[2])
    /\ \A e \in s_pbox : partial_box(cells, fixed, e[1], e[2])

\* rows r and r+1 of a region holding the states s and t, and the round
\* constants of round r
TwoRows(s, t, r) ==
    [c \in {<<0, i, q>> : i \in 0 .. (W - 1), q \in r .. (r + 1)} |->
        IF c[3] = r THEN s[c[2]] ELSE t[c[2]]]

RoundArcs(r) == [c \in {<<0, i, r>> : i \in 0 .. (W - 1)} |-> Arks(r)[c[2]]]

\* the states the gate of round r accepts as the row after s
GateImages(s, r) ==
    {t \in States :
        IF full_rounds_at(r, FullRounds, PartialRounds)
        THEN full_box(TwoRows(s, t, r), RoundArcs(r), 0, r)
        ELSE partial_box(TwoRows(s, t, r), RoundArcs(r), 0, r)}

C14_GateSoundness ==
    /\ BoxGatesHold =>
        \A k \in RegionsOf("permutation") :
            /\ \A r \in 0 .. (FullRounds + PartialRounds - 1) :
                    RowValue(k, r + 1) = RoundTable[r][RowValue(k, r)]
            /\ RowValue(k, FullRounds + PartialRounds) = PermTable[RowValue(k, 0)]
    /\ pc = "init" =>
        \A r \in 0 .. (FullRounds + PartialRounds - 1) :
            \A s \in States : GateImages(s, r) = {RoundTable[r][s]}

C14_Witness ==
    /\ BoxGatesHold
    /\ forged # {}
    /\ Cardinality(RegionsOf("permutation")) = 2

\* the circuit has been synthesized on circuit_x
Synthesized == pc = "p_done" /\ driver = "circuit"

\* the constraint system under the public input pub
SatisfiedWith(pub) ==
    /\ SpongeGatesHold(cells)
    /\ SpongeCopiesHold(cells)
    /\ \A b \in bindings :
            cells[b[1]] = IF b[2] \in DOMAIN pub THEN pub[b[2]] ELSE 0

\* C15: for every input whose length is a positive multiple of the element
\* size, the circuit synthesized on it is satisfied when the public input is
\* exactly the digest of the reference hash on the same input.
C15_DigestAccepted ==
    (Synthesized /\ forged = {}) =>
        /\ public = hash(circuit_x)
        /\ SpongeSatisfied

\* C16: starting from the accepted public digest, changing any single element
\* of it to a different field value makes the constraint system unsatisfied.
C16_ChangedDigestRejected ==
    (/\ Synthesized
     /\ SatisfiedWith(hash(circuit_x))
     /\ \E k \in DOMAIN public : forged = {<<"public", k>>})
        => ~SpongeSatisfied

RECURSIVE Squeezed(_, _)
\* the sponge state after k further permutations
Squeezed(s, k) == IF k = 0 THEN s ELSE PermTable[Squeezed(s, k - 1)]

\* C17: after the last chunk, digest element 0 is state[0] and digest
\* element k >= 1 is state[0] after k further permutations; every digest
\* element is bound to its own public-input slot.
C17_SqueezeBindings ==
    (Synthesized /\ forged = {}) =>
        \A k \in 0 .. (element_size - 1) :
            \E b \in bindings :
                /\ b[2] = k
                /\ cells[b[1]] =
                     Squeezed(Sponge(circuit_x, Length(circuit_x) \div element_size), k)[0]

\* C18: initiate assigns the state (0, ..., 0, capacity), whatever was done
\* before it: the rate slots hold 0 and slot W-1 the capacity.
C18_InitialState ==
    /\ Returned("initiate") =>
        StateValue(cells, cur_state) =
            [i \in 0 .. (W - 1) |-> IF i = W - 1 THEN Capacity % P ELSE 0]
    /\ forged = {} =>
        \A k \in RegionsOf("initiate states") :
            /\ \A i \in 0 .. (W - 2) : cells[<<k, i, 0>>] = 0
            /\ cells[<<k, W - 1, 0>>] = Capacity % P

C18_Witness ==
    /\ Returned("initiate")
    /\ RegionsOf("permutation") # {}

\* C19: load_inputs(state, chunk) returns a state whose rate slot i is
\* state[i] + chunk[i] and whose capacity slot is state[W-1], and the
\* add-inputs gate holds on a row exactly when these W equalities hold
\* between the previous, current and next rows.
C19_Absorb ==
    /\ (Returned("load_inputs") /\ Length(call.inputs) = W - 1) =>
        /\ \A i \in 0 .. (W - 2) :
                cells[cur_state[i]] = (call.input[i] + call.inputs[i]) % P
        /\ cells[cur_state[W - 1]] = call.input[W - 1]
    /\ \A e \in s_add_inputs :
        add_inputs(cells, e[1], e[2]) <=>
            /\ \A i \in 0 .. (W - 2) :
                    cells[<<e[1], i, e[2] + 1>>] =
                        (cells[<<e[1], i, e[2] - 1>>] + cells[<<e[1], i, e[2]>>]) % P
            /\ cells[<<e[1], W - 1, e[2] + 1>>] = cells[<<e[1], W - 1, e[2] - 1>>]

C19_Witness ==
    /\ Returned("load_inputs")
    /\ Length(call.inputs) = W - 1
    /\ \E i \in 0 .. (W - 2) : call.input[i] # 0 /\ call.inputs[i] # 0
    /\ call.input[W - 1] # 0

\* C20: load_inputs called with a chunk whose length differs from W-1 aborts
\* before any cell is assigned, any selector enabled or any copy made.
C20_LengthAbort ==
    [][(PoseidonLoadInputs /\ Length(call'.inputs) # W - 1) =>
            /\ pc' = "abort"
            /\ UNCHANGED <<regions, cells, fixed, equality, bindings,
                           s_add_inputs, s_fbox, s_pbox, cur_state>>]_vars

C20_Witness ==
    /\ pc = "abort"
    /\ call.op = "load_inputs"
    /\ Length(call.inputs) = W
    /\ RegionsOf("permutation") # {}

\* C21: an odd full_rounds is detected as a configuration error: a
\* permutation called with an odd full_round aborts instead of producing a
\* constraint system.
C21_OddRoundsAbort ==
    (call.op = "permutation" /\ call.full_round % 2 = 1) => pc = "abort"

\* C22: the round-constant table must have exactly full_rounds +
\* partial_rounds rows: with a shorter or a longer table permutation aborts,
\* and no round constant is silently ignored.
C22_TableLengthAbort ==
    (call.op = "permutation" /\ call.full_round + call.partial_round # ArksLength)
        => pc = "abort"

\* C23: load_path aborts, before assigning any cell, whenever len(left) or
\* len(right) or len(copy) differs from m+1, len(hash) differs from m, or
\* n > m.
C23_LoadPathAbort ==
    [][(/\ LoadPath
        /\ \/ Length(left_nodes) # M + 1
           \/ Length(right_nodes) # M + 1
           \/ Length(copy) # M + 1
           \/ Length(hash_nodes) # M
           \/ n > M)
        => /\ pc' = "abort"
           /\ UNCHANGED <<advice, s_hash, s_pub, equality, bindings, root_node>>]_vars

C23_Witness ==
    /\ pc = "abort"
    /\ driver = "malformed"
    /\ s_pub # {}
    /\ Length(copy) = M + 2

\* C24: in every synthesis load_leaves is issued before load_path, and the
\* root is exposed to the public input only after load_path has returned.
C24_BindingOrder ==
    /\ s_hash # {} => s_pub # {}
    /\ pc = "path" => (s_pub # {} /\ s_hash # {} /\ root_node # EmptyVec)
    /\ (\E b \in bindings : b[2] >= M + I) =>
            (pc = "exposed" /\ s_hash # {} /\ root_node # EmptyVec)
    /\ pc \in {"start", "leaves", "path"} => ~(\E b \in bindings : b[2] >= M + I)

C24_Witness ==
    /\ pc = "exposed"
    /\ s_pub # {}
    /\ s_hash # {}
    /\ \E b \in bindings : b[2] = M + I /\ b[1] = root_node[0]

C26_DemoRelation ==
    /\ (pc = "d_done" /\ forged = {}) =>
        (DemoSatisfied <=>
            public[1] = (public[0] * (circuit_x[0] * circuit_x[0] * circuit_x[0]
                                        + circuit_x[0])) % P)
    /\ (pc = "d_done" /\ DemoSatisfied) =>
        public[1] = (public[0] * (cells[<<0, 0, 0>>] * cells[<<0, 0, 0>>]
                                    * cells[<<0, 0, 0>>] + cells[<<0, 0, 0>>])) % P

C26_Witness ==
    /\ pc = "d_done"
    /\ forged = {}
    /\ DemoSatisfied
    /\ circuit_x[0] = 2
    /\ public[0] = 5
    /\ public[1] = 50 % P

\* C27: in every satisfying assignment the pad slots of each absorbed input
\* row (the rate slots after the first element_size slots) equal the pad
\* vector of the Spec.
C27_PaddingConstrained ==
    SpongeSatisfied =>
        \A r \in RegionsOf("load inputs") :
            \A j \in element_size .. (rate - 1) :
                cells[<<r, j, 1>>] = Pad[j - element_size]

\* C28: in every assignment satisfying the gates and the copy constraints, the
\* state fed into the first absorb of a sponge invocation (the load-inputs
\* region that follows an initiate region) is (0, ..., 0, capacity).
C28_StartConstrained ==
    (SpongeGatesHold(cells) /\ SpongeCopiesHold(cells)) =>
        \A r \in RegionsOf("load inputs") :
            (r - 1) \in RegionsOf("initiate states") =>
                \A i \in 0 .. (W - 1) :
                    cells[<<r, i, 0>>] = IF i = W - 1 THEN Capacity % P ELSE 0

\* C29: for every real path length n <= M, MerklePathCircuit::synthesize hands
\* load_path M+1 left nodes, M+1 right nodes and M hash nodes, and the length
\* assertions of load_path do not fire in a run of the circuit.
C29_SynthesizeLengths ==
    driver = "circuit" =>
        /\ pc \in {"start", "leaves"} =>
            /\ Length(left_nodes) = M + 1
            /\ Length(right_nodes) = M + 1
            /\ Length(hash_nodes) = M
        /\ ~(pc = "abort" /\ s_pub # {})

\* C30: in a run of the circuit, once load_path has been called, the left,
\* right and hash cells of every level of the path region are in the equality
\* relation with the cells of that level's sponge invocation (the cells
\* synthesize collected in left_nodes, right_nodes and hash_nodes), and the
\* hash cell holds the digest of the level's pair.
C30_ChipWiring ==
    (driver = "circuit" /\ s_pub # {} /\ pc # "leaves") =>
        \A i \in 0 .. (M - 1), j \in 0 .. (I - 1) :
            /\ <<<<"left", j, i>>, <<"path", j, i * 3>>>> \in equality
            /\ <<<<"right", j, i>>, <<"path", j, i * 3 + 1>>>> \in equality
            /\ <<<<"hash", j, i>>, <<"path", j, i * 3 + 2>>>> \in equality
            /\ advice[<<"path", j, i * 3 + 2>>] = HashOf(left_nodes[i], right_nodes[i])[j]

====
